---------------------------- MODULE Spec2Model ----------------------------
(***************************************************************************)
(* Silex: the client-side flux store (src/src/client/flux/store.ts) and    *)
(* the server-side backend registry (src/src/ts/server/backends/index.ts). *)
(*                                                                         *)
(* A slice of the redux state is a record [ref, val]: val is its content   *)
(* and ref is the identity of the JavaScript object holding it, so that    *)
(* `a !== b` of the source is `a.ref # b.ref` here.  Identities are        *)
(* renamed after every step in order of first use among the objects that   *)
(* are still reachable (Canon): identities are only ever compared for      *)
(* equality, so the renaming changes no behaviour and keeps the state      *)
(* space finite without bounding the number of dispatches.                 *)
(***************************************************************************)
EXTENDS Integers, Sequences, FiniteSets, TLC

VARIABLES
    state,       \* store.getState(): the root snapshot, one [ref, val] per slice
    prevState,   \* store.ts:63, <<>> while undefined, <<s>> once assigned
    curState,    \* store.ts:64, <<>> while undefined, <<s>> once assigned
    subs,        \* redux listeners added by subscribeToCrud/subscribeTo, in order
    calls,       \* invocations of cbk made by the last dispatch, in order
    pre,         \* history: the root snapshot immediately before the last dispatch
    lastAction,  \* history: the action and generated id of the last dispatch
    outcome,     \* history: "idle", "ok", or the error the last dispatch threw
    completed,   \* history: number of dispatches that returned, saturating at 2
    issued,      \* history: number of dispatches called, saturating at 2
    refPages,    \* reference ordered-list model of the pages collection
    refElements, \* reference ordered-list model of the elements collection
    backends,    \* config: the registered backends, in registration order
    loggedIn,    \* the set of <<session, index in backends>> that are logged in
    request,     \* <<arguments>> when the last step was a getBackend call
    resolved,    \* the result of that call: <<index in backends>> or <<>>
    jobs,        \* the job table: jobId -> JobData of the jobs not evicted
    tasks,       \* per jobId allocated, the pipeline task driving that job
    allocated,   \* history: every jobId handed out so far
    now,         \* the clock, in ticks
    published,   \* the jobIds returned to the callers of publish, in order
    poll,        \* <<[jobId, error, data]>> when the last step was a poll
    req,         \* <<the HTTP request>> being handled or just answered
    pc,          \* where routeLoginStatus stands between two awaits, or "idle"
    backend,     \* routeLoginStatus: <<index>> of the backend resolved, or <<>>
    backendData, \* routeLoginStatus: <<the descriptor built>>, or <<>>
    ops,         \* the backend operations invoked for the request
    res          \* <<the response sent>>, or <<>>

storeVars == <<state, prevState, curState, subs, calls, pre, lastAction,
               outcome, completed, issued, refPages, refElements>>
backendVars == <<backends, loggedIn, request, resolved>>
jobVars == <<jobs, tasks, allocated, now, published, poll>>
routeVars == <<req, pc, backend, backendData, ops, res>>
vars == <<storeVars, backendVars, jobVars, routeVars>>

----------------------------------------------------------------------------
(* Bounds and input sets *)

MaxSubs == 2                    \* listeners subscribed at one time
MaxBackends == 3                \* backends registered at process start

Ids == {"a", "b"}               \* entity ids, caller-supplied or generated
OneId == {"a"}                  \* the ids used where listeners are modelled
NoId == ""                      \* an entity passed to create without an id
Names == {"Home", "Landing"}    \* values of the one merged field, `name`
SliceNames == {"pages", "elements", "site", "ui"}
CrudNames == {"pages", "elements"}

Range(s) == {s[i] : i \in DOMAIN s}


----------------------------------------------------------------------------
(* The entity store: withCrud and the reducers it wraps *)

IdsOf(list) == {list[i].id : i \in DOMAIN list}

IndexOf(list, id) == CHOOSE i \in DOMAIN list : list[i].id = id

\* The options objects handed to withCrud for the two collections.
CrudOptionsSwappedIds(name) ==
    IF name = "pages"
    THEN [actionEnum |-> "PageAction", allowSetId |-> FALSE]
    ELSE [actionEnum |-> "ElementAction", allowSetId |-> TRUE]

CrudOptionsSameEnum(name) ==
    IF name = "pages"
    THEN [actionEnum |-> "PageAction", allowSetId |-> TRUE]
    ELSE [actionEnum |-> "PageAction", allowSetId |-> FALSE]

CrudOptionsCrossed(name) ==
    IF name = "pages"
    THEN [actionEnum |-> "ElementAction", allowSetId |-> TRUE]
    ELSE [actionEnum |-> "PageAction", allowSetId |-> FALSE]

CrudOptions(name) ==
    IF name = "pages"
    THEN [actionEnum |-> "PageAction", allowSetId |-> TRUE]
    ELSE [actionEnum |-> "ElementAction", allowSetId |-> FALSE]

\* TRUE when create stores the caller's id, FALSE when it stores a generated one.
KeepsCallerId(options, action) == options.allowSetId /\ action.id # NoId

\* TRUE when the reducer built from `options` draws an id from the generator.
ConsumesFresh(options, action) ==
    /\ action.enum = options.actionEnum
    /\ action.op = "CREATE"
    /\ ~KeepsCallerId(options, action)

\* create: append at the end, with the caller's id or with the generated one.
CrudCreate(options, list, action, fresh) ==
    IF KeepsCallerId(options, action)
    THEN IF action.id \in IdsOf(list)
         THEN [err |-> "DuplicateIdError", val |-> list]
         ELSE [err |-> "none",
               val |-> Append(list, [id |-> action.id, name |-> action.name])]
    ELSE [err |-> "none",
          val |-> Append(list, [id |-> fresh, name |-> action.name])]

\* update: merge the partial fields into the entity, in place.
CrudUpdate(list, action) ==
    IF action.id \notin IdsOf(list)
    THEN [err |-> "NotFoundError", val |-> list]
    ELSE [err |-> "none",
          val |-> [list EXCEPT ![IndexOf(list, action.id)].name = action.name]]

\* delete: remove the entity.
CrudDelete(list, action) ==
    IF action.id \notin IdsOf(list)
    THEN [err |-> "NotFoundError", val |-> list]
    ELSE [err |-> "none",
          val |-> SelectSeq(list, LAMBDA e : e.id # action.id)]

\* pageReducer, elementReducer: no action of their own in this model.
entityReducer(list, action) == [err |-> "none", val |-> list]

\* The reducer withCrud returns: the CRUD actions of options.actionEnum, and
\* the wrapped reducer for every other action.
withCrud(options, list, action, fresh) ==
    IF action.enum # options.actionEnum THEN entityReducer(list, action)
    ELSE IF action.op = "CREATE" THEN CrudCreate(options, list, action, fresh)
    ELSE IF action.op = "UPDATE" THEN CrudUpdate(list, action)
    ELSE IF action.op = "DELETE" THEN CrudDelete(list, action)
    ELSE entityReducer(list, action)

\* siteReducer, uiReducer: a singleton slice replaced by its own UPDATE action.
singletonReducer(enum, val, action) ==
    IF action.enum = enum /\ action.op = "UPDATE"
    THEN [err |-> "none", val |-> action.name]
    ELSE [err |-> "none", val |-> val]

\* The reducer combineReducers calls for the slice `name`.
sliceReducer(name, val, action, fresh) ==
    IF name \in CrudNames THEN withCrud(CrudOptions(name), val, action, fresh)
    ELSE IF name = "site" THEN singletonReducer("SiteAction", val, action)
    ELSE singletonReducer("UiAction", val, action)

----------------------------------------------------------------------------
(* Object identities *)

Defined(maybe) == maybe # <<>>

\* The identities of slice `name` held by the store, the tracker, the
\* listeners' last arguments and the history snapshot.
LiveRefs(name) ==
    {state[name].ref, pre[name].ref}
        \cup {s[name].ref : s \in Range(prevState) \cup Range(curState)}
        \cup {c.next.ref : c \in {d \in Range(calls) : d.name = name}}
        \cup {p.ref : p \in UNION {Range(c.prev) :
                                    c \in {d \in Range(calls) : d.name = name}}}

\* The identity of an object allocated now: one that no live object has.
NewRef(name) ==
    CHOOSE r \in 0..Cardinality(LiveRefs(name)) :
        /\ r \notin LiveRefs(name)
        /\ \A q \in 0..(r - 1) : q \in LiveRefs(name)

\* The number of distinct identities used in `order` before r is first used.
Rank(r, order) ==
    LET i == CHOOSE k \in DOMAIN order :
                 order[k] = r /\ \A j \in 1..(k - 1) : order[j] # r
    IN Cardinality({order[j] : j \in 1..(i - 1)})

----------------------------------------------------------------------------
(* The root store: createStore(combineReducers({pages, elements, site, ui})) *)

SliceOrder == <<"pages", "elements", "site", "ui">>

\* The error of the first slice reducer that throws, in key order.
FirstError(outs) ==
    IF \A i \in DOMAIN SliceOrder : outs[SliceOrder[i]].err = "none"
    THEN "none"
    ELSE outs[SliceOrder[CHOOSE i \in DOMAIN SliceOrder :
                  /\ outs[SliceOrder[i]].err # "none"
                  /\ \A j \in 1..(i - 1) : outs[SliceOrder[j]].err = "none"]].err

\* A reducer that clones the whole state as soon as anything changed.
combineReducersCloneAll(s, action, fresh) ==
    LET outs == [n \in SliceNames |-> sliceReducer(n, s[n].val, action, fresh)]
        changed == \E n \in SliceNames : outs[n].val # s[n].val
    IN [err |-> FirstError(outs),
        st  |-> [n \in SliceNames |->
                    IF changed THEN [ref |-> NewRef(n), val |-> outs[n].val]
                    ELSE s[n]]]

\* combineReducers: every slice reducer sees every action; a slice whose
\* reducer hands back its input keeps its identity, any other is a new object.
combineReducers(s, action, fresh) ==
    LET outs == [n \in SliceNames |-> sliceReducer(n, s[n].val, action, fresh)]
    IN [err |-> FirstError(outs),
        st  |-> [n \in SliceNames |->
                    IF outs[n].val = s[n].val THEN s[n]
                    ELSE [ref |-> NewRef(n), val |-> outs[n].val]]]

\* A tracker that records the new state twice.
trackerNoShift(cur, s) == [prevState |-> <<s>>, curState |-> <<s>>]

\* store.ts:65-68, the listener added when the module is loaded: it runs
\* first in every dispatch. `cur` is curState before the dispatch.
tracker(cur, s) == [prevState |-> cur, curState |-> <<s>>]

\* A listener that hands over the new slice where it has no previous one.
listenerNeverNull(sub, prev, s) ==
    IF ~Defined(prev) \/ s[sub.name].ref # prev[1][sub.name].ref
    THEN <<[lid |-> sub.lid, name |-> sub.name,
            prev |-> IF Defined(prev) THEN <<prev[1][sub.name]>> ELSE <<s[sub.name]>>,
            next |-> s[sub.name]]>>
    ELSE <<>>

\* A listener that compares the root snapshots instead of its own slice.
listenerWholeState(sub, prev, s) ==
    IF ~Defined(prev) \/ \E n \in SliceNames : s[n].ref # prev[1][n].ref
    THEN <<[lid |-> sub.lid, name |-> sub.name,
            prev |-> IF Defined(prev) THEN <<prev[1][sub.name]>> ELSE <<>>,
            next |-> s[sub.name]]>>
    ELSE <<>>

\* store.ts:46-51 and 55-60, the listener subscribeToCrud and subscribeTo add:
\* the invocations of cbk it makes, with (prev, next); prev <<>> is null.
listener(sub, prev, s) ==
    IF ~Defined(prev) \/ s[sub.name].ref # prev[1][sub.name].ref
    THEN <<[lid |-> sub.lid, name |-> sub.name,
            prev |-> IF Defined(prev) THEN <<prev[1][sub.name]>> ELSE <<>>,
            next |-> s[sub.name]]>>
    ELSE <<>>

\* redux calls the listeners in subscription order, after the tracker.
RECURSIVE notify(_, _, _)
notify(listeners, prev, s) ==
    IF listeners = <<>> THEN <<>>
    ELSE listener(Head(listeners), prev, s) \o notify(Tail(listeners), prev, s)

\* store.dispatch(action): the reducer runs first; when it throws, the
\* exception leaves dispatch before the state is replaced or any listener
\* runs. Otherwise the state is replaced, the tracker runs, then the listeners.
dispatchNotifyOnThrow(s, prev, cur, listeners, action, fresh) ==
    LET r   == combineReducers(s, action, fresh)
        nxt == IF r.err = "none" THEN r.st ELSE s
        trk == tracker(cur, nxt)
    IN [err |-> r.err, state |-> nxt,
        prevState |-> trk.prevState, curState |-> trk.curState,
        calls |-> notify(listeners, trk.prevState, nxt)]

dispatch(s, prev, cur, listeners, action, fresh) ==
    LET r   == combineReducers(s, action, fresh)
        trk == tracker(cur, r.st)
    IN IF r.err # "none"
       THEN [err |-> r.err, state |-> s, prevState |-> prev, curState |-> cur,
             calls |-> <<>>]
       ELSE [err |-> "none", state |-> r.st,
             prevState |-> trk.prevState, curState |-> trk.curState,
             calls |-> notify(listeners, trk.prevState, r.st)]

----------------------------------------------------------------------------
(* The reference model of a collection: a plain ordered list *)

RefHas(list, id) == \E i \in 1..Len(list) : list[i].id = id

RECURSIVE RefReplace(_, _, _)
RefReplace(list, id, name) ==
    IF list = <<>> THEN <<>>
    ELSE <<IF Head(list).id = id THEN [id |-> id, name |-> name] ELSE Head(list)>>
             \o RefReplace(Tail(list), id, name)

RECURSIVE RefRemove(_, _)
RefRemove(list, id) ==
    IF list = <<>> THEN <<>>
    ELSE (IF Head(list).id = id THEN <<>> ELSE <<Head(list)>>)
             \o RefRemove(Tail(list), id)

\* The operation `action` applied to the reference list of collection `coll`:
\* an operation on another collection, or one that fails, changes nothing.
RefApply(coll, list, action, fresh) ==
    IF action.enum # (IF coll = "pages" THEN "PageAction" ELSE "ElementAction")
    THEN list
    ELSE IF action.op = "CREATE"
    THEN LET id == IF coll = "pages" /\ action.id # NoId THEN action.id ELSE fresh
         IN IF RefHas(list, id) THEN list
            ELSE list \o <<[id |-> id, name |-> action.name]>>
    ELSE IF action.op = "UPDATE"
    THEN IF RefHas(list, action.id) THEN RefReplace(list, action.id, action.name)
         ELSE list
    ELSE IF action.op = "DELETE" THEN RefRemove(list, action.id)
    ELSE list

----------------------------------------------------------------------------
(* Steps of the client *)

NoAction == [enum |-> "none", op |-> "none", id |-> NoId, name |-> "", fresh |-> NoId]

InitState ==
    [n \in SliceNames |->
        [ref |-> 0, val |-> IF n \in CrudNames THEN <<>> ELSE "Home"]]

\* The identities, renamed in order of first use among the objects kept.
CanonOrder(n, rp, rpre, rc, rs) ==
    (IF Defined(rp) THEN <<rp[1][n].ref>> ELSE <<>>) \o <<rpre[n].ref>>
        \o (IF Defined(rc) THEN <<rc[1][n].ref>> ELSE <<>>) \o <<rs[n].ref>>

\* For each slice, the new name of every identity kept.
Canon(rp, rc, rs, rpre) ==
    [n \in SliceNames |->
        LET ord == CanonOrder(n, rp, rpre, rc, rs)
        IN [r \in Range(ord) |-> Rank(r, ord)]]

RenameSlice(m, n, sl) == [ref |-> m[n][sl.ref], val |-> sl.val]

RenameState(m, s) == [n \in SliceNames |-> RenameSlice(m, n, s[n])]

RenameMaybe(m, x) == IF Defined(x) THEN <<RenameState(m, x[1])>> ELSE <<>>

RenameCall(m, c) ==
    [lid  |-> c.lid,
     name |-> c.name,
     prev |-> IF Defined(c.prev) THEN <<RenameSlice(m, c.name, c.prev[1])>>
              ELSE <<>>,
     next |-> RenameSlice(m, c.name, c.next)]

\* The store, the tracker and the history after a step, identities renamed.
Commit(rp, rc, rs, rpre, rcalls) ==
    \E m \in {Canon(rp, rc, rs, rpre)} :
        /\ state' = RenameState(m, rs)
        /\ prevState' = RenameMaybe(m, rp)
        /\ curState' = RenameMaybe(m, rc)
        /\ pre' = RenameState(m, rpre)
        /\ calls' = [i \in DOMAIN rcalls |-> RenameCall(m, rcalls[i])]

\* TRUE when some reducer draws an id from the generator for this action.
FreshNeeded(action) == \E n \in CrudNames : ConsumesFresh(CrudOptions(n), action)

\* The generator yields an id that the collection it is for does not hold.
FreshOk(action, fresh) ==
    /\ (fresh # NoId) <=> FreshNeeded(action)
    /\ \A n \in CrudNames :
          ConsumesFresh(CrudOptions(n), action) => fresh \notin IdsOf(state[n].val)

\* One call of store.dispatch(action), from the reducer to the last of the
\* listeners redux holds; the id generator yields an id of freshIds when a
\* reducer asks for one.
DispatchTo(listeners, action, freshIds) ==
    \E fresh \in freshIds \cup {NoId} :
        /\ FreshOk(action, fresh)
        /\ \E d \in {dispatch(state, prevState, curState, listeners, action, fresh)} :
              /\ Commit(d.prevState, d.curState, d.state, state, d.calls)
              /\ outcome' = IF d.err = "none" THEN "ok" ELSE d.err
              /\ completed' = IF d.err = "none" /\ completed < 2
                              THEN completed + 1 ELSE completed
              /\ issued' = IF issued < 2 THEN issued + 1 ELSE issued
        /\ lastAction' = [enum |-> action.enum, op |-> action.op, id |-> action.id,
                          name |-> action.name, fresh |-> fresh]
        /\ refPages' = RefApply("pages", refPages, action, fresh)
        /\ refElements' = RefApply("elements", refElements, action, fresh)
        /\ UNCHANGED subs

Dispatch(action, freshIds) == DispatchTo(subs, action, freshIds)

Act(enum, op, id, name) == [enum |-> enum, op |-> op, id |-> id, name |-> name]

CrudEnums == {"PageAction", "ElementAction"}

CreateOf(ids) == \E e \in CrudEnums, id \in ids \cup {NoId}, n \in Names :
                     Dispatch(Act(e, "CREATE", id, n), ids)

UpdateOf(ids) == \E e \in CrudEnums, id \in ids, n \in Names :
                     Dispatch(Act(e, "UPDATE", id, n), ids)

DeleteOf(ids) == \E e \in CrudEnums, id \in ids :
                     Dispatch(Act(e, "DELETE", id, ""), ids)

\* The steps of Spec: one entity id, every slice, listeners.
Create == CreateOf(OneId)

Update == UpdateOf(OneId)

Delete == DeleteOf(OneId)

SetSingleton == \E e \in {"SiteAction", "UiAction"}, n \in Names :
                    Dispatch(Act(e, "UPDATE", NoId, n), {})

\* An action no reducer knows.
Other == Dispatch(Act("OtherAction", "OTHER", NoId, ""), {})

\* The steps of SpecCrud: the two collections with every id, no listener.
CrudCreateStep == CreateOf(Ids)

CrudUpdateStep == UpdateOf(Ids)

CrudDeleteStep == DeleteOf(Ids)

\* A step that is no dispatch: the history of the last dispatch is dropped.
Idle ==
    /\ Commit(prevState, curState, state, state, <<>>)
    /\ outcome' = "idle"
    /\ lastAction' = NoAction
    /\ UNCHANGED <<completed, issued, refPages, refElements>>

\* store.subscribe(listener): the listener is added after those present.
\* A listener is named by its position among the listeners subscribed.
Subscribe(name) ==
    /\ Len(subs) < MaxSubs
    /\ subs' = Append(subs, [lid |-> Len(subs) + 1, name |-> name])
    /\ Idle

subscribeToCrud == Subscribe("pages")

subscribeTo == Subscribe("site")

\* The function subscribe returned is called: the listener is removed, and
\* the listeners after it move up.
Unsubscribe ==
    \E i \in DOMAIN subs :
        /\ subs' = [j \in 1..(Len(subs) - 1) |->
                      [lid |-> j, name |-> subs[IF j < i THEN j ELSE j + 1].name]]
        /\ Idle

StoreInit ==
    /\ state = InitState
    /\ prevState = <<>>
    /\ curState = <<>>
    /\ subs = <<>>
    /\ calls = <<>>
    /\ pre = InitState
    /\ lastAction = NoAction
    /\ outcome = "idle"
    /\ completed = 0
    /\ issued = 0
    /\ refPages = <<>>
    /\ refElements = <<>>

StoreNext ==
    \/ Create
    \/ Update
    \/ Delete
    \/ SetSingleton
    \/ Other
    \/ subscribeToCrud
    \/ subscribeTo
    \/ Unsubscribe

BackendIdle ==
    /\ backends = <<>>
    /\ loggedIn = {}
    /\ request = <<>>
    /\ resolved = <<>>

\* No publish request was made yet.
JobsIdle ==
    /\ jobs = <<>>
    /\ tasks = <<>>
    /\ allocated = {}
    /\ now = 0
    /\ published = <<>>
    /\ poll = <<>>

\* No request is being handled.
RoutesIdle ==
    /\ req = <<>>
    /\ pc = "idle"
    /\ backend = <<>>
    /\ backendData = <<>>
    /\ ops = {}
    /\ res = <<>>

Init == StoreInit /\ BackendIdle /\ JobsIdle /\ RoutesIdle

Next == StoreNext /\ UNCHANGED <<backendVars, jobVars, routeVars>>

Spec == Init /\ [][Next]_vars

CrudNext ==
    /\ \/ CrudCreateStep
       \/ CrudUpdateStep
       \/ CrudDeleteStep
    /\ UNCHANGED <<backendVars, jobVars, routeVars>>

SpecCrud == Init /\ [][CrudNext]_vars

----------------------------------------------------------------------------
(* The backend registry: src/src/ts/server/backends/index.ts *)

BackendIds == {"a", "b"}
BackendTypes == {"STORAGE", "HOSTING"}
Sessions == {"s1", "s2"}

\* The configurations: up to MaxBackends backends, no two with the same id
\* and type, in registration order.
Registries ==
    LET B == [id : BackendIds, type : BackendTypes]
    IN UNION {{r \in [1..n -> B] : \A i, j \in 1..n : r[i] = r[j] => i = j} :
                 n \in 0..MaxBackends}

\* config.getBackends(type): the backends registered for `type`, in
\* registration order; a backend is named by its index in the registry.
RECURSIVE getBackendsFrom(_, _, _)
getBackendsFrom(cfg, type, i) ==
    IF i > Len(cfg) THEN <<>>
    ELSE (IF cfg[i].type = type THEN <<i>> ELSE <<>>)
             \o getBackendsFrom(cfg, type, i + 1)

getBackends(cfg, type) == getBackendsFrom(cfg, type, 1)

\* backend.isLoggedIn(session)
isLoggedIn(logged, session, b) == <<session, b>> \in logged

\* Array.prototype.find: the first element of `list` that passes the test,
\* given as the set of the elements that pass it; <<>> is undefined.
find(list, passing) ==
    IF \E i \in DOMAIN list : list[i] \in passing
    THEN <<list[CHOOSE i \in DOMAIN list :
                    /\ list[i] \in passing
                    /\ \A j \in 1..(i - 1) : list[j] \notin passing]>>
    ELSE <<>>

\* backends[0]: the first element, or undefined when the array is empty.
At0(list) == IF list = <<>> THEN <<>> ELSE <<list[1]>>

\* getBackend when an unknown id falls through to the other tiers.
getBackendIdFallsBack(cfg, logged, session, type, backendId) ==
    LET bs == getBackends(cfg, type)
        byId == find(bs, {b \in DOMAIN cfg : cfg[b].id = backendId /\ cfg[b].type = type})
        byLogin == find(bs, {b \in DOMAIN cfg : isLoggedIn(logged, session, b)})
    IN IF backendId # NoId /\ byId # <<>> THEN byId
       ELSE IF byLogin # <<>> THEN byLogin
       ELSE At0(bs)

\* getBackend without its last line.
getBackendNoDefault(cfg, logged, session, type, backendId) ==
    LET bs == getBackends(cfg, type)
    IN IF backendId # NoId
       THEN find(bs, {b \in DOMAIN cfg : cfg[b].id = backendId /\ cfg[b].type = type})
       ELSE find(bs, {b \in DOMAIN cfg : isLoggedIn(logged, session, b)})

\* getBackend when the loop over the logged-in backends is skipped.
getBackendNoLoginTier(cfg, logged, session, type, backendId) ==
    LET bs == getBackends(cfg, type)
    IN IF backendId # NoId
       THEN find(bs, {b \in DOMAIN cfg : cfg[b].id = backendId /\ cfg[b].type = type})
       ELSE At0(bs)

\* getBackend(config, session, type, backendId): <<b>> or <<>> for undefined.
\* A backendId that is undefined or empty is falsy: NoId.
getBackend(cfg, logged, session, type, backendId) ==
    LET bs == getBackends(cfg, type)
        byLogin == find(bs, {b \in DOMAIN cfg : isLoggedIn(logged, session, b)})
    IN IF backendId # NoId
       THEN find(bs, {b \in DOMAIN cfg : cfg[b].id = backendId /\ cfg[b].type = type})
       ELSE IF byLogin # <<>> THEN byLogin
       ELSE At0(bs)

\* The login flow of a backend completes for a session.
Login ==
    \E s \in Sessions, b \in DOMAIN backends :
        /\ <<s, b>> \notin loggedIn
        /\ loggedIn' = loggedIn \cup {<<s, b>>}
        /\ request' = <<>>
        /\ resolved' = <<>>
        /\ UNCHANGED backends

\* backend.logout(session)
Logout ==
    \E s \in Sessions, b \in DOMAIN backends :
        /\ <<s, b>> \in loggedIn
        /\ loggedIn' = loggedIn \ {<<s, b>>}
        /\ request' = <<>>
        /\ resolved' = <<>>
        /\ UNCHANGED backends

\* One call of getBackend.
Resolve ==
    \E s \in Sessions, t \in BackendTypes, id \in BackendIds \cup {NoId} :
        /\ request' = <<[session |-> s, type |-> t, backendId |-> id]>>
        /\ resolved' = getBackend(backends, loggedIn, s, t, id)
        /\ UNCHANGED <<backends, loggedIn>>

BackendInit ==
    /\ StoreInit
    /\ backends \in Registries
    /\ loggedIn = {}
    /\ request = <<>>
    /\ resolved = <<>>
    /\ JobsIdle
    /\ RoutesIdle

BackendNext ==
    /\ \/ Login
       \/ Logout
       \/ Resolve
    /\ UNCHANGED <<storeVars, jobVars, routeVars>>

SpecBackends == BackendInit /\ [][BackendNext]_vars

----------------------------------------------------------------------------
(* Backend resolution: claims C3, C4, C5 *)

\* The backends of the requested type, and those the session is logged in to.
OfType == {b \in DOMAIN backends : backends[b].type = request[1].type}

LoggedOfType == {b \in OfType : <<request[1].session, b>> \in loggedIn}

WithId == {b \in OfType : backends[b].id = request[1].backendId}

Earliest(S) == CHOOSE b \in S : \A c \in S : b <= c

\* C3: with an explicit id, getBackend returns the backend of the requested
\* type that has this id, whatever any login state, and returns undefined when
\* there is none: it never falls back to a logged-in or first backend.
C3_ExplicitId ==
    (request # <<>> /\ request[1].backendId # NoId) =>
        IF WithId = {} THEN resolved = <<>>
        ELSE resolved = <<Earliest(WithId)>>

\* An explicit id that is not registered, while a backend of the type is
\* registered and the session is logged in to it: the result is undefined.
C3_Witness ==
    /\ request # <<>>
    /\ request[1].backendId # NoId
    /\ WithId = {}
    /\ LoggedOfType # {}
    /\ resolved = <<>>

\* C4: without an id and with no backend of the type logged in for the
\* session, getBackend returns the first registered backend of the type, and
\* undefined only when none of the type is registered.
C4_FirstRegistered ==
    (request # <<>> /\ request[1].backendId = NoId /\ LoggedOfType = {}) =>
        IF OfType = {} THEN resolved = <<>>
        ELSE resolved = <<Earliest(OfType)>>

\* Two backends of the type registered after one of the other type, nobody
\* logged in to them: the first of the type is returned.
C4_Witness ==
    /\ request # <<>>
    /\ request[1].backendId = NoId
    /\ LoggedOfType = {}
    /\ Cardinality(OfType) >= 2
    /\ resolved = <<Earliest(OfType)>>
    /\ Earliest(OfType) > 1

\* C5: without an id and with a backend of the type logged in for the session,
\* getBackend returns the earliest registered of the logged-in ones, also
\* when backends registered before it are not logged in.
C5_FirstLoggedIn ==
    (request # <<>> /\ request[1].backendId = NoId /\ LoggedOfType # {}) =>
        resolved = <<Earliest(LoggedOfType)>>

\* The backend returned is logged in and is not the first of its type.
C5_Witness ==
    /\ request # <<>>
    /\ request[1].backendId = NoId
    /\ LoggedOfType # {}
    /\ resolved = <<Earliest(LoggedOfType)>>
    /\ Earliest(LoggedOfType) > Earliest(OfType)

----------------------------------------------------------------------------
(* Notification: claims C1, C2 *)

\* The last step was a dispatch that returned.
Dispatched == outcome = "ok"

\* The last step was a dispatch that returned, and not the first to do so
\* since the module was loaded.
DispatchedAgain == outcome = "ok" /\ completed >= 2

ContentChanged(n) == pre[n].val # state[n].val

CallsOf(lid) == {i \in DOMAIN calls : calls[i].lid = lid}

\* C1 as stated: in every dispatch, the first included, a listener is invoked
\* only if the content of its own slice changed.
C1_Original ==
    Dispatched => \A i \in DOMAIN calls : ContentChanged(calls[i].name)

\* C1 amended: in every dispatch after the first one that returned, a
\* listener is invoked only if the content of its own slice changed.
C1_NoCrossSlice ==
    DispatchedAgain => \A i \in DOMAIN calls : ContentChanged(calls[i].name)

\* A later dispatch changed another slice and left the slice of a subscribed
\* listener alone: that listener was not invoked.
C1_Witness ==
    /\ DispatchedAgain
    /\ \E i \in DOMAIN subs :
          /\ ~ContentChanged(subs[i].name)
          /\ CallsOf(subs[i].lid) = {}
          /\ \E n \in SliceNames \ {subs[i].name} : ContentChanged(n)

\* Listener `sub` was invoked exactly once, with (prev, next).
InvokedOnce(sub, prev, next) ==
    /\ Cardinality(CallsOf(sub.lid)) = 1
    /\ \A i \in CallsOf(sub.lid) :
          /\ calls[i].name = sub.name
          /\ calls[i].prev = prev
          /\ calls[i].next = next

----------------------------------------------------------------------------
(* The entity store: claims C6, C7, C8, C9 *)

\* The last step was a dispatch, whether it returned or threw.
Attempted == outcome # "idle"

\* The collection that the CRUD action of the last dispatch is for.
Target == IF lastAction.enum = "PageAction" THEN "pages" ELSE "elements"

IsCrud(op) == Attempted /\ lastAction.enum \in CrudEnums /\ lastAction.op = op

UniqueIds(list) ==
    \A i, j \in DOMAIN list : list[i].id = list[j].id => i = j

\* C6: after any sequence of create, update and delete, each collection is
\* the list that the reference model holds, and no two entities share an id.
C6_MatchesReference ==
    /\ state.pages.val = refPages
    /\ state.elements.val = refElements
    /\ UniqueIds(state.pages.val)
    /\ UniqueIds(state.elements.val)

\* Two pages in insertion order, not in id order, the first one renamed,
\* and the last operation failed.
C6_Witness ==
    /\ Len(state.pages.val) = 2
    /\ state.pages.val[1] = [id |-> "b", name |-> "Landing"]
    /\ state.pages.val[2].id = "a"
    /\ outcome = "NotFoundError"

\* C7: create appends at the end; elements get the generated id, which no
\* entity present has, whatever id the caller passed; a page whose id is
\* present fails with DuplicateIdError and the collection is unchanged.
C7_Create ==
    IsCrud("CREATE") =>
        LET old == pre[Target].val
            stored == IF Target = "pages" /\ lastAction.id # NoId
                      THEN lastAction.id ELSE lastAction.fresh
        IN IF Target = "pages" /\ lastAction.id \in IdsOf(old)
           THEN /\ outcome = "DuplicateIdError"
                /\ state = pre
           ELSE /\ outcome = "ok"
                /\ stored \notin IdsOf(old)
                /\ state[Target].val =
                       old \o <<[id |-> stored, name |-> lastAction.name]>>

\* A page is created with the id of a page that is present.
C7_Witness ==
    /\ IsCrud("CREATE")
    /\ outcome = "DuplicateIdError"
    /\ lastAction.id \in IdsOf(state.pages.val)
    /\ Len(state.pages.val) = 2

\* C8: update of a present id merges the fields into that entity and changes
\* nothing else: same length, same ids at the same positions, every other
\* entity and the other collection as before.
C8_UpdateFrame ==
    (IsCrud("UPDATE") /\ lastAction.id \in IdsOf(pre[Target].val)) =>
        LET old == pre[Target].val
            new == state[Target].val
        IN /\ outcome = "ok"
           /\ Len(new) = Len(old)
           /\ \A i \in DOMAIN old :
                 /\ new[i].id = old[i].id
                 /\ new[i].name = IF old[i].id = lastAction.id
                                  THEN lastAction.name ELSE old[i].name
           /\ \A n \in SliceNames \ {Target} : state[n] = pre[n]

\* The first of two pages is renamed.
C8_Witness ==
    /\ IsCrud("UPDATE")
    /\ outcome = "ok"
    /\ Target = "pages"
    /\ Len(pre.pages.val) = 2
    /\ pre.pages.val[1].id = lastAction.id
    /\ pre.pages.val[1].name = "Home"
    /\ state.pages.val[1].name = "Landing"

\* C9: update or delete of an absent id throws NotFoundError; the snapshot
\* is the same object as before and no listener is invoked.
C9_NotFound ==
    ((IsCrud("UPDATE") \/ IsCrud("DELETE"))
        /\ lastAction.id \notin IdsOf(pre[Target].val)) =>
        /\ outcome = "NotFoundError"
        /\ state = pre
        /\ calls = <<>>

\* A delete of an id that is absent, after an earlier dispatch returned,
\* with a listener subscribed to that collection.
C9_Witness ==
    /\ IsCrud("DELETE")
    /\ outcome = "NotFoundError"
    /\ completed >= 1
    /\ \E i \in DOMAIN subs : subs[i].name = Target

----------------------------------------------------------------------------
(* Structural sharing: claim C10 *)

\* C10: in every dispatch the identity of a slice changes exactly when its
\* content changes.
C10_SharingIff ==
    Attempted =>
        \A n \in SliceNames : (pre[n].ref # state[n].ref) <=> ContentChanged(n)

\* A dispatch changed one slice and left the three others the same objects.
C10_Witness ==
    /\ Dispatched
    /\ \E n \in SliceNames :
          /\ ContentChanged(n)
          /\ pre[n].ref # state[n].ref
          /\ \A k \in SliceNames \ {n} : pre[k].ref = state[k].ref

----------------------------------------------------------------------------
(* The publication orchestrator: the job table and the pipeline of a job.  *)
(* The source tree holds its types only (JobStatus, JobData and           *)
(* PublicationJobData in src/unnamed/part_001) and the provider interfaces *)
(* of backends/index.ts; the steps follow section 4.4 of the               *)
(* specification.                                                          *)

MaxJobs == 2                    \* publish requests accepted in one run
Expiry == 1                     \* ticks between creation and the deadline
MaxTime == Expiry + 1           \* the clock stops one tick after the first deadline

Websites == {"w1"}

\* part_001:232-236
JobStatus == {"IN_PROGRESS", "SUCCESS", "ERROR"}

Terminal == {"SUCCESS", "ERROR"}

\* An allocator that hands out the same id again.
newJobIdReused(used) == 1

\* The id of a new job: one more than the ids handed out so far.
newJobId(used) == Cardinality(used) + 1

\* part_001:246-257, the PublicationJobData of a job accepted at time t;
\* `deadline` is when the timer held in _timeout fires; url <<>> is undefined.
startJob(jobId, t) ==
    [jobId |-> jobId, status |-> "IN_PROGRESS", message |-> "Publishing",
     url |-> <<>>, logs |-> <<>>, errors |-> <<>>, deadline |-> t + Expiry]

\* A status callback that also sets the status of the job.
onStatusSetsStatus(job, message, status) ==
    IF status = "ERROR"
    THEN [job EXCEPT !.errors = Append(@, <<message>>), !.status = status]
    ELSE [job EXCEPT !.logs = Append(@, <<message>>), !.status = status]

\* StatusCallback (backends/index.ts:42) as the orchestrator passes it to a
\* backend: the message goes to errors when the status is ERROR, to logs
\* otherwise; the status of the job is left to the pipeline.
onStatus(job, message, status) ==
    IF status = "ERROR"
    THEN [job EXCEPT !.errors = Append(@, <<message>>)]
    ELSE [job EXCEPT !.logs = Append(@, <<message>>)]

\* A step failed: an entry in errors, status ERROR, a message.
jobError(job, step) ==
    [job EXCEPT !.status = "ERROR",
                !.message = step,
                !.errors = Append(@, <<step>>)]

\* The pipeline succeeded: status SUCCESS, a message, the url from hosting.
jobSuccess(job, url) ==
    [job EXCEPT !.status = "SUCCESS", !.message = "Published", !.url = <<url>>]

\* The job object is mutated in place; when the job was evicted the object
\* is no longer in the table and the table does not change.
updateJob(table, jobId, job) ==
    IF jobId \in DOMAIN table THEN [table EXCEPT ![jobId] = job] ELSE table

\* The job a task works on: the entry of the table, or when evicted an
\* object no one else can see.
jobOf(table, jobId) ==
    IF jobId \in DOMAIN table THEN table[jobId] ELSE startJob(jobId, 0)

\* A timer that only removes the jobs that have ended.
expiredOnlyTerminal(job, t) == t >= job.deadline /\ job.status \in Terminal

\* The timer of a job fires at its deadline.
expired(job, t) == t >= job.deadline

\* The table after the timers due at time t have fired.
evict(table, t) ==
    LET keep == {j \in DOMAIN table : ~expired(table[j], t)}
    IN [j \in keep |-> table[j]]

\* What a poll answers: section 6, without the timer.
snapshot(job) ==
    [jobId |-> job.jobId, status |-> job.status, message |-> job.message,
     url |-> job.url, logs |-> job.logs, errors |-> job.errors]

\* The answer to a poll of jobId: the snapshot of the job, or NotFoundError
\* when the table has no such job; data <<>> is no data.
getJob(table, jobId) ==
    IF jobId \in DOMAIN table
    THEN [jobId |-> jobId, error |-> "none", data |-> <<snapshot(table[jobId])>>]
    ELSE [jobId |-> jobId, error |-> "NotFoundError", data |-> <<>>]

\* A poll that removes the job it reports once the job has ended.
afterPollConsumes(table, jobId) ==
    [j \in {k \in DOMAIN table : k # jobId \/ table[k].status \notin Terminal}
        |-> table[j]]

\* The table after a poll: a poll reads.
afterPoll(table, jobId) == table

\* A pipeline that goes on to hosting whatever writeFiles did.
afterWriteContinues(task, ok) ==
    [task EXCEPT !.pc = "publish", !.wrote = ok,
                 !.writeCalls = @ + 1, !.publishCalls = @ + 1,
                 !.failed = IF ok THEN @ ELSE "write"]

\* The pipeline after writeFiles returned: it calls hosting.publish when the
\* files were written, and ends when they were not.
afterWrite(task, ok) ==
    [task EXCEPT !.pc = IF ok THEN "publish" ELSE "done", !.wrote = ok,
                 !.writeCalls = @ + 1,
                 !.publishCalls = IF ok THEN @ + 1 ELSE @,
                 !.failed = IF ok THEN @ ELSE "write"]

\* The pipeline after publish returned.
afterPublish(task, ok) ==
    [task EXCEPT !.pc = "done", !.hosted = ok,
                 !.failed = IF ok THEN @ ELSE "publish"]

\* A publish request is accepted: a job is created and its id returned,
\* the pipeline is started and runs on its own.
Publish ==
    \E w \in Websites :
        /\ Len(published) < MaxJobs
        /\ \E id \in {newJobId(allocated)} :
              /\ jobs' = [j \in DOMAIN jobs \cup {id} |->
                            IF j = id THEN startJob(id, now) ELSE jobs[j]]
              /\ tasks' = [j \in DOMAIN tasks \cup {id} |->
                            IF j = id
                            THEN [website |-> w, created |-> now,
                                  pc |-> "write", wrote |-> FALSE,
                                  hosted |-> FALSE, failed |-> "none",
                                  writeCalls |-> 0, publishCalls |-> 0,
                                  told |-> FALSE]
                            ELSE tasks[j]]
              /\ allocated' = allocated \cup {id}
              /\ published' = Append(published, id)
        /\ poll' = <<>>
        /\ UNCHANGED now

\* storage.writeFiles returns for job j, with success or with an error.
WriteFiles ==
    \E j \in DOMAIN tasks, ok \in BOOLEAN :
        /\ tasks[j].pc = "write"
        /\ tasks' = [tasks EXCEPT ![j] = afterWrite(tasks[j], ok)]
        /\ jobs' = updateJob(jobs, j,
                      IF ok THEN onStatus(jobOf(jobs, j), "written", "IN_PROGRESS")
                      ELSE jobError(jobOf(jobs, j), "write"))
        /\ poll' = <<>>
        /\ UNCHANGED <<allocated, now, published>>

\* hosting.publish is running for job j and calls the status callback.
HostingStatus ==
    \E j \in DOMAIN tasks, status \in {"IN_PROGRESS", "ERROR"} :
        /\ tasks[j].pc = "publish"
        /\ ~tasks[j].told
        /\ tasks' = [tasks EXCEPT ![j].told = TRUE]
        /\ jobs' = updateJob(jobs, j, onStatus(jobOf(jobs, j), "hosting", status))
        /\ poll' = <<>>
        /\ UNCHANGED <<allocated, now, published>>

\* hosting.publish returns for job j, with a url or with an error.
HostingPublish ==
    \E j \in DOMAIN tasks, ok \in BOOLEAN :
        /\ tasks[j].pc = "publish"
        /\ tasks' = [tasks EXCEPT ![j] = afterPublish(tasks[j], ok)]
        /\ jobs' = updateJob(jobs, j,
                      IF ok THEN jobSuccess(jobOf(jobs, j), tasks[j].website)
                      ELSE jobError(jobOf(jobs, j), "publish"))
        /\ poll' = <<>>
        /\ UNCHANGED <<allocated, now, published>>

\* Time passes; the timers that are due fire.
Tick ==
    /\ now < MaxTime
    /\ now' = now + 1
    /\ jobs' = evict(jobs, now + 1)
    /\ poll' = <<>>
    /\ UNCHANGED <<tasks, allocated, published>>

\* The client polls the status of a job: any id, allocated or not.
Poll ==
    \E j \in 1..(MaxJobs + 1) :
        /\ poll' = <<getJob(jobs, j)>>
        /\ jobs' = afterPoll(jobs, j)
        /\ UNCHANGED <<tasks, allocated, now, published>>

JobsNext ==
    /\ \/ Publish
       \/ WriteFiles
       \/ HostingStatus
       \/ HostingPublish
       \/ Tick
       \/ Poll
    /\ UNCHANGED <<storeVars, backendVars, routeVars>>

SpecJobs == Init /\ [][JobsNext]_vars

----------------------------------------------------------------------------
(* The publication orchestrator: claims C11, C12, C13, C14, C20 *)

\* TRUE of a step that is a poll.
Polled == poll' # <<>> /\ <<jobs, tasks, allocated, now, published, poll>>' # jobVars

\* C11: the status of a job that is SUCCESS or ERROR never changes again
\* while the job is in the table. A job whose write step failed is in status
\* ERROR, its errors hold an entry of that step, hosting.publish was never
\* called for it, and a poll of a job in status ERROR answers ERROR.
C11_MonotonicTerminal ==
    [][/\ \A j \in DOMAIN jobs \cap DOMAIN jobs' :
             jobs[j].status \in Terminal => jobs'[j].status = jobs[j].status
       /\ \A j \in DOMAIN jobs' :
             tasks'[j].failed = "write" =>
                /\ jobs'[j].status = "ERROR"
                /\ \E i \in DOMAIN jobs'[j].errors : jobs'[j].errors[i] = <<"write">>
                /\ tasks'[j].publishCalls = 0
       /\ (Polled /\ poll'[1].jobId \in DOMAIN jobs
                  /\ jobs[poll'[1].jobId].status = "ERROR") =>
             /\ poll'[1].error = "none"
             /\ poll'[1].data[1].status = "ERROR"]_vars

\* A job whose write step failed is polled and the answer is ERROR, while
\* another job was published with success.
C11_Witness ==
    /\ poll # <<>>
    /\ poll[1].error = "none"
    /\ poll[1].data[1].status = "ERROR"
    /\ tasks[poll[1].jobId].failed = "write"
    /\ \E k \in DOMAIN jobs : jobs[k].status = "SUCCESS"

\* C12: the deadline of a job is its creation time plus the expiry delay; no
\* job whose deadline has come is in the table, whatever its status, and a
\* poll of a job id whose deadline has come answers NotFoundError.
C12_Expiry ==
    /\ \A j \in DOMAIN jobs :
          /\ jobs[j].deadline = tasks[j].created + Expiry
          /\ now < jobs[j].deadline
    /\ \A j \in allocated : now >= tasks[j].created + Expiry => j \notin DOMAIN jobs
    /\ (poll # <<>> /\ poll[1].jobId \in allocated
                    /\ now >= tasks[poll[1].jobId].created + Expiry) =>
          poll[1].error = "NotFoundError"

\* A job whose pipeline has not ended is polled after its deadline: not found.
C12_Witness ==
    /\ poll # <<>>
    /\ poll[1].jobId \in allocated
    /\ now > tasks[poll[1].jobId].created + Expiry
    /\ tasks[poll[1].jobId].pc # "done"
    /\ poll[1].error = "NotFoundError"

\* C13: a poll changes no job, no deadline and nothing else of the job table,
\* and answers what the table holds; the snapshot of a job in a terminal
\* status is the same after every step that leaves the job in the table, so
\* that every poll of it gets the same answer until it is evicted.
C13_PureRead ==
    [][/\ Polled =>
             /\ jobs' = jobs
             /\ UNCHANGED <<tasks, allocated, now>>
             /\ poll'[1] = getJob(jobs, poll'[1].jobId)
       /\ \A j \in DOMAIN jobs \cap DOMAIN jobs' :
             jobs[j].status \in Terminal => jobs'[j] = jobs[j]]_vars

\* A job in status SUCCESS is polled and is still in the table afterwards.
C13_Witness ==
    /\ poll # <<>>
    /\ poll[1].error = "none"
    /\ poll[1].data[1].status = "SUCCESS"
    /\ poll[1].jobId \in DOMAIN jobs
    /\ snapshot(jobs[poll[1].jobId]) = poll[1].data[1]

\* C14: a publish request hands out a job id never handed out before, creates
\* the job in status IN_PROGRESS and returns the id while neither step of the
\* pipeline has completed, and changes no other job; a step of the pipeline
\* of one job changes no other job of the table.
C14_FreshJob ==
    [][/\ published' # published =>
             \E id \in {published'[Len(published')]} :
                /\ id \notin allocated
                /\ allocated' = allocated \cup {id}
                /\ published' = Append(published, id)
                /\ id \in DOMAIN jobs'
                /\ jobs'[id].status = "IN_PROGRESS"
                /\ tasks'[id].pc = "write"
                /\ tasks'[id].writeCalls = 0 /\ tasks'[id].publishCalls = 0
                /\ \A k \in DOMAIN jobs : k \in DOMAIN jobs' /\ jobs'[k] = jobs[k]
       /\ \A j \in DOMAIN tasks :
             tasks'[j] # tasks[j] =>
                \A k \in (DOMAIN jobs \cap DOMAIN jobs') \ {j} : jobs'[k] = jobs[k]]_vars

\* The second publish request has just returned its job id, and both jobs are
\* IN_PROGRESS for the same website.
C14_Witness ==
    /\ published = <<1, 2>>
    /\ {1, 2} \subseteq DOMAIN jobs
    /\ jobs[1].status = "IN_PROGRESS" /\ jobs[2].status = "IN_PROGRESS"
    /\ tasks[1].website = tasks[2].website
    /\ tasks[1].pc = "publish"
    /\ tasks[2].pc = "write"

\* C20: hosting.publish is called for a job only when writeFiles has
\* succeeded for it; a job is SUCCESS only when both steps succeeded, and
\* then has a message and the url of hosting; no step is called twice for
\* one job, and a job whose step failed has ended.
C20_PipelineOrder ==
    /\ \A j \in DOMAIN tasks :
          /\ tasks[j].publishCalls > 0 => tasks[j].wrote
          /\ tasks[j].hosted => tasks[j].wrote
          /\ tasks[j].writeCalls <= 1 /\ tasks[j].publishCalls <= 1
          /\ tasks[j].failed # "none" => tasks[j].pc = "done"
    /\ \A j \in DOMAIN jobs :
          jobs[j].status = "SUCCESS" =>
             /\ tasks[j].wrote /\ tasks[j].hosted
             /\ jobs[j].message # ""
             /\ jobs[j].url = <<tasks[j].website>>

\* A job is SUCCESS after writeFiles and publish each ran once.
C20_Witness ==
    \E j \in DOMAIN jobs :
        /\ jobs[j].status = "SUCCESS"
        /\ jobs[j].url # <<>>
        /\ tasks[j].writeCalls = 1 /\ tasks[j].publishCalls = 1
        /\ \E k \in DOMAIN tasks : tasks[k].failed = "publish"

----------------------------------------------------------------------------
(* The routes of the backends (backends/index.ts:126-309): routeLoginStatus, *)
(* routeListBackends, routeLogout and routeLoginSuccess. routeLoginStatus  *)
(* is modelled await by await, so that logins and logouts interleave with  *)
(* it; the other three handlers are one step each.                         *)

MaxRouteBackends == 2           \* backends registered where routes are modelled

Missing == "undefined"          \* undefined, for a string or an object
Endpoints == {"loginStatus", "list", "logout", "loginCallback"}
TypeInputs == {"STORAGE", "HOSTING", "hosting", "ftp", Missing}

RouteRegistries == {r \in Registries : Len(r) <= MaxRouteBackends}

\* The requests: `query` and `session` tell whether req.query and
\* req.session exist; type, backendId, id and error are the fields of the
\* query, absent when Missing (NoId for backendId) or FALSE.
Requests ==
    {r \in [endpoint : Endpoints, query : BOOLEAN, session : {"s1", Missing},
            type : TypeInputs, backendId : {"a", NoId}, id : {"w1", Missing},
            error : BOOLEAN] :
        /\ ~r.query => (r.type = Missing /\ r.backendId = NoId
                           /\ r.id = Missing /\ ~r.error)
        /\ r.endpoint # "loginStatus" => r.id = Missing
        /\ r.endpoint # "loginCallback" => ~r.error
        /\ r.endpoint = "list" => r.backendId = NoId}

RequestsTo(endpoint) == {r \in Requests : r.endpoint = endpoint}

\* String.prototype.toUpperCase on the inputs above.
toUpperCase(str) ==
    CASE str = "hosting" -> "HOSTING"
      [] str = "ftp" -> "FTP"
      [] OTHER -> str

\* index.ts:88-90: BackendType[type.toUpperCase()], undefined for a name the
\* enum does not have.
toBackendEnum(type) ==
    IF toUpperCase(type) \in BackendTypes THEN toUpperCase(type) ELSE Missing

\* An error as the handlers look at it: its code, <<>> when it has none.
PlainError == [code |-> <<>>]

\* requiredParam(value, name): <<>> when the value is returned, <<error>>
\* when it is missing and the call throws.
requiredParam(value) ==
    IF value \in {Missing, NoId} THEN <<[code |-> <<400>>]>> ELSE <<>>

\* error?.code ?? fallback
codeOr(error, fallback) == IF error.code = <<>> THEN fallback ELSE error.code[1]

\* A response: the status and the fields of the body that are modelled.
Json(status, message) ==
    [status |-> status, message |-> message, backend |-> <<>>, user |-> <<>>,
     websiteMeta |-> Missing, list |-> <<>>]

\* The fields of a backend that the registry does not list.
displayName(cfg, b) == <<"name of", cfg[b].id>>

icon(cfg, b) == <<"icon of", cfg[b].id>>

\* backend.disableLogout is optional: set on hosting backends here.
disableLogout(cfg, b) == IF cfg[b].type = "HOSTING" THEN "true" ELSE Missing

\* backend.getAuthorizeURL(session): the url of the login page, null when
\* the session needs none.
getAuthorizeURL(cfg, logged, session, b) ==
    IF isLoggedIn(logged, session, b) THEN <<>> ELSE <<"authorize", cfg[b].id>>

\* backend.getUserData(session)
getUserData(cfg, session, b) == <<"user of", session, cfg[b].id>>

\* A descriptor that carries the session along.
toBackendDataWithSession(cfg, logged, session, b) ==
    [backendId |-> cfg[b].id,
     type |-> cfg[b].type,
     displayName |-> displayName(cfg, b),
     icon |-> icon(cfg, b),
     disableLogout |-> disableLogout(cfg, b) = "true",
     isLoggedIn |-> isLoggedIn(logged, session, b),
     authUrl |-> <<"authorize", cfg[b].id, session>>]

\* index.ts:112-122
toBackendData(cfg, logged, session, b) ==
    [backendId |-> cfg[b].id,
     type |-> cfg[b].type,
     displayName |-> displayName(cfg, b),
     icon |-> icon(cfg, b),
     disableLogout |-> disableLogout(cfg, b) = "true",
     isLoggedIn |-> isLoggedIn(logged, session, b),
     authUrl |-> getAuthorizeURL(cfg, logged, session, b)]

\* What a handler leaves behind: where it stands, the backend it holds, the
\* descriptor it built, the backend operations invoked so far, the response.
Stage(at, b, data, called, response) ==
    [pc |-> at, backend |-> b, backendData |-> data, ops |-> called,
     res |-> response]

\* index.ts:143-160, up to the guard: the parameters, the resolution, and
\* the answer when no backend is found. getBackend asks the backends of the
\* type whether the session is logged in when the request names no backend.
routeLoginStatusBegin(cfg, logged, r) ==
    LET absent == requiredParam(IF r.query THEN "query" ELSE Missing)
                     \o requiredParam(r.session)
        b == getBackend(cfg, logged, r.session, r.type, r.backendId)
        called == IF r.backendId = NoId /\ getBackends(cfg, r.type) # <<>>
                  THEN {"isLoggedIn"} ELSE {}
    IN IF absent # <<>>
       THEN Stage("idle", <<>>, <<>>, {},
                  <<Json(codeOr(absent[1], 500), "Missing required parameter")>>)
       ELSE IF b = <<>>
       THEN Stage("idle", <<>>, <<>>, called, <<Json(500, "No backend found")>>)
       ELSE Stage("guard", b, <<>>, called, <<>>)

\* A guard that fetches the user before it looks at the login state.
routeLoginStatusGuardLate(logged, r, b, called) ==
    IF ~isLoggedIn(logged, r.session, b[1])
    THEN Stage("idle", b, <<>>, called \cup {"isLoggedIn", "getUserData"},
               <<Json(401, "Not logged in")>>)
    ELSE Stage("describe", b, <<>>, called \cup {"isLoggedIn", "getUserData"}, <<>>)

\* index.ts:161-169
routeLoginStatusGuard(logged, r, b, called) ==
    IF ~isLoggedIn(logged, r.session, b[1])
    THEN Stage("idle", b, <<>>, called \cup {"isLoggedIn"},
               <<Json(401, "Not logged in")>>)
    ELSE Stage("describe", b, <<>>, called \cup {"isLoggedIn"}, <<>>)

\* index.ts:170
routeLoginStatusDescribe(cfg, logged, r, b, called) ==
    Stage("finish", b, <<toBackendData(cfg, logged, r.session, b[1])>>,
          called \cup {"isLoggedIn", "getAuthorizeURL"}, <<>>)

\* A handler that asks for the site whenever the request names one.
routeLoginStatusFinishAnyType(cfg, r, b, data, called) ==
    Stage("idle", b, data,
          called \cup {"getUserData"}
                 \cup (IF r.id # Missing THEN {"getSiteMeta"} ELSE {}),
          <<[Json(200, "") EXCEPT
               !.backend = data,
               !.user = <<getUserData(cfg, r.session, b[1])>>,
               !.websiteMeta = r.id]>>)

\* index.ts:171-177: websiteMeta is undefined without a website id, false
\* for a backend that is no storage, and what getSiteMeta returns otherwise.
routeLoginStatusFinish(cfg, r, b, data, called) ==
    LET storage == r.id # Missing /\ cfg[b[1]].type = "STORAGE"
    IN Stage("idle", b, data,
             called \cup {"getUserData"}
                    \cup (IF storage THEN {"getSiteMeta"} ELSE {}),
             <<[Json(200, "") EXCEPT
                  !.backend = data,
                  !.user = <<getUserData(cfg, r.session, b[1])>>,
                  !.websiteMeta = IF r.id = Missing THEN Missing
                                  ELSE IF storage THEN r.id ELSE "false"]>>)

\* index.ts:190-213. Reading query.type of a missing query throws an error
\* without code, caught by the outer catch.
routeListBackends(cfg, logged, r) ==
    LET absent == IF r.query THEN requiredParam(r.type) ELSE <<PlainError>>
        bs == getBackends(cfg, toBackendEnum(r.type))
    IN IF absent # <<>>
       THEN Stage("idle", <<>>, <<>>, {},
                  <<Json(codeOr(absent[1], 400), "Error in the list backends request")>>)
       ELSE Stage("idle", <<>>, <<>>,
                  IF bs = <<>> THEN {} ELSE {"isLoggedIn", "getAuthorizeURL"},
                  <<[Json(200, "") EXCEPT !.list =
                        [i \in DOMAIN bs |-> toBackendData(cfg, logged, r.session, bs[i])]]>>)

\* index.ts:219-247, the status sendHtml answers with; defaultErrorCode is
\* <<>> when the caller passes none.
sendHtml(message, error, defaultErrorCode) ==
    Json(IF error # <<>>
         THEN (IF error[1].code # <<>> THEN error[1].code[1]
               ELSE IF defaultErrorCode # <<>> THEN defaultErrorCode[1] ELSE 500)
         ELSE 200,
         message)

\* The error a handler throws before it calls the backend, <<>> when none:
\* the parameters of index.ts:257-263 and 280-285, then the resolution.
beforeBackend(cfg, logged, r) ==
    LET absent == IF ~r.query THEN <<PlainError>>
                  ELSE IF r.error THEN <<PlainError>>
                  ELSE requiredParam(r.backendId) \o requiredParam(r.type)
    IN IF absent # <<>> THEN <<absent[1]>>
       ELSE IF getBackend(cfg, logged, r.session, toBackendEnum(r.type), r.backendId) = <<>>
       THEN <<PlainError>>
       ELSE <<>>

\* index.ts:253-271
routeLoginSuccess(cfg, logged, r) ==
    LET error == beforeBackend(cfg, logged, r)
    IN IF error # <<>>
       THEN Stage("idle", <<>>, <<>>, {}, <<sendHtml("Error in the request", error, <<400>>)>>)
       ELSE Stage("idle", getBackend(cfg, logged, r.session, toBackendEnum(r.type), r.backendId),
                  <<>>, {}, <<sendHtml("Logged in", <<>>, <<>>)>>)

\* index.ts:276-309
routeLogout(cfg, logged, r) ==
    LET error == beforeBackend(cfg, logged, r)
    IN IF error # <<>>
       THEN Stage("idle", <<>>, <<>>, {},
                  <<Json(codeOr(error[1], 400), "Error in the logout request")>>)
       ELSE Stage("idle", getBackend(cfg, logged, r.session, toBackendEnum(r.type), r.backendId),
                  <<>>, {"logout"}, <<Json(200, "OK")>>)

\* The handler has run up to its next await, or to its response.
Reach(st) ==
    /\ pc' = st.pc
    /\ backend' = st.backend
    /\ backendData' = st.backendData
    /\ ops' = st.ops
    /\ res' = st.res

\* GET login status arrives.
LoginStatus ==
    /\ pc = "idle" /\ req = <<>>
    /\ \E r \in RequestsTo("loginStatus") :
           /\ req' = <<r>>
           /\ Reach(routeLoginStatusBegin(backends, loggedIn, r))
    /\ UNCHANGED backendVars

LoginStatusGuard ==
    /\ pc = "guard"
    /\ Reach(routeLoginStatusGuard(loggedIn, req[1], backend, ops))
    /\ UNCHANGED <<req, backendVars>>

LoginStatusDescribe ==
    /\ pc = "describe"
    /\ Reach(routeLoginStatusDescribe(backends, loggedIn, req[1], backend, ops))
    /\ UNCHANGED <<req, backendVars>>

LoginStatusFinish ==
    /\ pc = "finish"
    /\ Reach(routeLoginStatusFinish(backends, req[1], backend, backendData, ops))
    /\ UNCHANGED <<req, backendVars>>

\* GET list of backends.
ListBackends ==
    /\ pc = "idle" /\ req = <<>>
    /\ \E r \in RequestsTo("list") :
           /\ req' = <<r>>
           /\ Reach(routeListBackends(backends, loggedIn, r))
    /\ UNCHANGED backendVars

\* GET login callback.
LoginCallback ==
    /\ pc = "idle" /\ req = <<>>
    /\ \E r \in RequestsTo("loginCallback") :
           /\ req' = <<r>>
           /\ Reach(routeLoginSuccess(backends, loggedIn, r))
    /\ UNCHANGED backendVars

\* POST logout: backend.logout(session) ends the login of the session.
LogoutRequest ==
    /\ pc = "idle" /\ req = <<>>
    /\ \E r \in RequestsTo("logout") :
           /\ req' = <<r>>
           /\ \E st \in {routeLogout(backends, loggedIn, r)} :
                 /\ Reach(st)
                 /\ loggedIn' = IF "logout" \in st.ops
                                THEN loggedIn \ {<<r.session, st.backend[1]>>}
                                ELSE loggedIn
    /\ UNCHANGED <<backends, request, resolved>>

\* A login or a logout made elsewhere; it may come between two awaits of
\* routeLoginStatus. The last request is forgotten when none is in flight.
Elsewhere ==
    IF pc = "idle"
    THEN /\ req' = <<>>
         /\ Reach(Stage("idle", <<>>, <<>>, {}, <<>>))
    ELSE UNCHANGED routeVars

\* The response has left and the locals of the handler are gone.
Respond ==
    /\ pc = "idle" /\ res # <<>>
    /\ req' = <<>>
    /\ Reach(Stage("idle", <<>>, <<>>, {}, <<>>))
    /\ UNCHANGED backendVars

SessionLogin == Login /\ Elsewhere

SessionLogout == Logout /\ Elsewhere

RoutesInit ==
    /\ StoreInit
    /\ backends \in RouteRegistries
    /\ loggedIn = {}
    /\ request = <<>>
    /\ resolved = <<>>
    /\ JobsIdle
    /\ RoutesIdle

RoutesNext ==
    /\ \/ LoginStatus
       \/ LoginStatusGuard
       \/ LoginStatusDescribe
       \/ LoginStatusFinish
       \/ ListBackends
       \/ LoginCallback
       \/ LogoutRequest
       \/ Respond
       \/ SessionLogin
       \/ SessionLogout
    /\ UNCHANGED <<storeVars, jobVars>>

SpecRoutes == RoutesInit /\ [][RoutesNext]_vars

----------------------------------------------------------------------------
(* The routes of the backends: claims C15, C16, C17, C18 *)

\* The backends a request can resolve to by its type and id alone.
Candidates(r, type) ==
    {b \in DOMAIN backends :
        /\ backends[b].type = type
        /\ r.backendId = NoId \/ backends[b].id = r.backendId}

AfterGuard == {"getUserData", "getSiteMeta"}

WellFormed(r) ==
    /\ r.query
    /\ r.session # Missing
    /\ ~r.error
    /\ r.type \in BackendTypes
    /\ r.endpoint \in {"logout", "loginCallback"} => r.backendId # NoId

\* C16: on login status, logout and login callback, a well-formed request
\* whose type and id match no registered backend is answered 500, and no
\* logout is performed.
C16_Unmatched500 ==
    (res # <<>> /\ req[1].endpoint \in {"loginStatus", "logout", "loginCallback"}
        /\ WellFormed(req[1]) /\ Candidates(req[1], req[1].type) = {}) =>
       /\ res[1].status = 500
       /\ "logout" \notin ops

\* A request that lacks a parameter or whose type the enum does not have.
Malformed(r) ==
    \/ ~r.query
    \/ r.session = Missing
    \/ toBackendEnum(r.type) = Missing
    \/ r.endpoint \in {"logout", "loginCallback"} /\ r.backendId = NoId

\* C17: on every endpoint a request with a missing or malformed required
\* parameter is answered 400 and no backend operation is invoked for it.
C17_Missing400 ==
    (res # <<>> /\ Malformed(req[1])) =>
       /\ res[1].status = 400
       /\ ops = {}

BackendDataFields ==
    {"backendId", "type", "displayName", "icon", "disableLogout", "isLoggedIn", "authUrl"}

\* TRUE when `data` is determined by the backend b and by what isLoggedIn and
\* getAuthorizeURL answer for `session`: it has the fields of BackendData
\* only, and any session with the same two answers gets the same descriptor.
SessionBlind(data, session, b) ==
    /\ DOMAIN data = BackendDataFields
    /\ data.backendId = backends[b].id /\ data.type = backends[b].type
    /\ data.displayName = displayName(backends, b) /\ data.icon = icon(backends, b)
    /\ data.isLoggedIn = isLoggedIn(loggedIn, session, b)
    /\ data.authUrl = getAuthorizeURL(backends, loggedIn, session, b)
    /\ \A other \in Sessions :
          (/\ isLoggedIn(loggedIn, other, b) = isLoggedIn(loggedIn, session, b)
           /\ getAuthorizeURL(backends, loggedIn, other, b)
                 = getAuthorizeURL(backends, loggedIn, session, b)) =>
             toBackendData(backends, loggedIn, other, b) = data

\* C18: the descriptor toBackendData builds, in routeLoginStatus and for each
\* backend in routeListBackends, has the fields of BackendData only and is
\* the same for every session for which isLoggedIn and getAuthorizeURL answer
\* the same; building it changes no login state and no backend.
C18_DescriptorOnly ==
    [][/\ (pc = "describe" /\ pc' = "finish") =>
             /\ UNCHANGED <<backends, loggedIn, req>>
             /\ SessionBlind(backendData'[1], req[1].session, backend[1])
       /\ (req = <<>> /\ req' # <<>> /\ req'[1].endpoint = "list"
              /\ res'[1].status = 200) =>
             /\ UNCHANGED <<backends, loggedIn>>
             /\ \A i \in DOMAIN res'[1].list :
                   SessionBlind(res'[1].list[i], req'[1].session,
                                getBackends(backends, toBackendEnum(req'[1].type))[i])]_vars

\* A descriptor has been built for a session while another session is in
\* the same login state for that backend, and a third state differs.
C18_Witness ==
    /\ pc = "finish"
    /\ backendData # <<>>
    /\ backendData[1].isLoggedIn
    /\ \A s \in Sessions : <<s, backend[1]>> \in loggedIn
    /\ \E b \in DOMAIN backends : <<"s2", b>> \notin loggedIn

----------------------------------------------------------------------------
(* A listener that dispatches: redux accepts store.dispatch from inside a   *)
(* listener, and runs the reducer and every listener for it before the     *)
(* listener that called it returns.                                        *)

\* The callback of a listener that dispatches nothing.
NoCbk == [enum |-> "none", op |-> "none", id |-> NoId, name |-> ""]

\* The identity of an object allocated while those of `used` are held too.
NextRef(name, used) ==
    CHOOSE r \in 0..(Cardinality(LiveRefs(name)) + Cardinality(used)) :
        /\ r \notin LiveRefs(name) \cup used
        /\ \A q \in 0..(r - 1) : q \in LiveRefs(name) \cup used

\* combineReducers for a dispatch made while the root snapshot s of the
\* dispatch around it is held: a changed slice is an object of its own.
combineReducersNested(s, action) ==
    LET r == combineReducers(s, action, NoId)
    IN [n \in SliceNames |->
           IF r.st[n].val = s[n].val THEN s[n]
           ELSE [ref |-> NextRef(n, {s[n].ref}), val |-> r.st[n].val]]

\* The listeners of `ls` run in turn on what the store and the tracker hold
\* (store.ts:45-61); a callback that dispatches makes redux replace the
\* state, run the tracker (store.ts:65-68) and call every listener of `all`
\* before the next listener of `ls` runs.
RECURSIVE notifyNested(_, _, _)
notifyNested(ls, all, st) ==
    IF ls = <<>> THEN st
    ELSE LET sub == Head(ls)
             inv == listener(sub, st.prevState, st.state)
             st1 == [st EXCEPT !.calls = @ \o inv]
         IN IF inv # <<>> /\ sub.cbk.op # "none"
            THEN LET nxt == combineReducersNested(st1.state, sub.cbk)
                     trk == tracker(st1.curState, nxt)
                 IN notifyNested(Tail(ls), all,
                        notifyNested(all, all,
                            [state |-> nxt, prevState |-> trk.prevState,
                             curState |-> trk.curState, calls |-> st1.calls]))
            ELSE notifyNested(Tail(ls), all, st1)

\* store.dispatch(action) when listeners may dispatch.
dispatchNested(s, prev, cur, listeners, action, fresh) ==
    LET r   == combineReducers(s, action, fresh)
        trk == tracker(cur, r.st)
        end == notifyNested(listeners, listeners,
                   [state |-> r.st, prevState |-> trk.prevState,
                    curState |-> trk.curState, calls |-> <<>>])
    IN IF r.err # "none"
       THEN [err |-> r.err, state |-> s, prevState |-> prev, curState |-> cur,
             calls |-> <<>>]
       ELSE [err |-> "none", state |-> end.state, prevState |-> end.prevState,
             curState |-> end.curState, calls |-> end.calls]

\* One call of store.dispatch(action) by the application, with every
\* dispatch the listeners make during it.
DispatchNested(action, freshIds) ==
    \E fresh \in freshIds \cup {NoId} :
        /\ FreshOk(action, fresh)
        /\ \E d \in {dispatchNested(state, prevState, curState, subs, action, fresh)} :
              /\ Commit(d.prevState, d.curState, d.state, state, d.calls)
              /\ outcome' = IF d.err = "none" THEN "ok" ELSE d.err
              /\ completed' = IF d.err = "none" /\ completed < 2
                              THEN completed + 1 ELSE completed
              /\ issued' = IF issued < 2 THEN issued + 1 ELSE issued
        /\ lastAction' = [enum |-> action.enum, op |-> action.op, id |-> action.id,
                          name |-> action.name, fresh |-> fresh]
        /\ refPages' = RefApply("pages", refPages, action, fresh)
        /\ refElements' = RefApply("elements", refElements, action, fresh)
        /\ UNCHANGED subs

\* The application dispatches a page action.
PageDispatch ==
    \E op \in {"CREATE", "UPDATE", "DELETE"}, id \in OneId, n \in Names :
        DispatchNested(Act("PageAction", op, id, IF op = "DELETE" THEN "" ELSE n),
                       OneId)

\* The application dispatches a site action.
SiteDispatch ==
    \E n \in Names : DispatchNested(Act("SiteAction", "UPDATE", NoId, n), {})

\* subscribeToCrud / subscribeTo with a callback that only looks.
SubscribeLooking ==
    \E name \in {"pages", "site"} :
        /\ Len(subs) < MaxSubs
        /\ subs' = Append(subs, [lid |-> Len(subs) + 1, name |-> name, cbk |-> NoCbk])
        /\ Idle

\* subscribeToCrud('pages', cbk) with a callback that dispatches a site
\* action whenever the pages change.
SubscribeDispatching ==
    \E n \in Names :
        /\ Len(subs) < MaxSubs
        /\ subs' = Append(subs, [lid |-> Len(subs) + 1, name |-> "pages",
                                 cbk |-> Act("SiteAction", "UPDATE", NoId, n)])
        /\ Idle

NestedNext ==
    /\ \/ PageDispatch
       \/ SiteDispatch
       \/ SubscribeLooking
       \/ SubscribeDispatching
    /\ UNCHANGED <<backendVars, jobVars, routeVars>>

SpecNested == Init /\ [][NestedNext]_vars

----------------------------------------------------------------------------
(* Dispatch from a listener: claim C19 *)

\* The content the reducer of slice n gave for the action the application
\* dispatched last.
OuterVal(n) == sliceReducer(n, pre[n].val, lastAction, lastAction.fresh).val

\* C19 as stated: in a dispatch of the application after the first, each
\* listener of a slice that this dispatch changed is invoked exactly once
\* with prev the slice before the dispatch, and next what the dispatch made
\* of it, also when an earlier listener dispatched in between.
C19_NoReentrantDispatch ==
    DispatchedAgain =>
        \A i \in DOMAIN subs :
            OuterVal(subs[i].name) # pre[subs[i].name].val =>
                /\ Cardinality({k \in CallsOf(i) :
                                   calls[k].prev = <<pre[subs[i].name]>>}) = 1
                /\ \A k \in CallsOf(i) :
                      calls[k].prev = <<pre[subs[i].name]>> =>
                          calls[k].next.val = OuterVal(subs[i].name)

----------------------------------------------------------------------------
(* The login-status route: claims C23, C24 *)

\* The last step answered a login-status request with 200.
LoginStatusOk ==
    /\ res # <<>>
    /\ req[1].endpoint = "loginStatus"
    /\ res[1].status = 200

\* C23 as stated: every 200 answer to a login-status request describes the
\* backend that was resolved and carries isLoggedIn = true in its descriptor,
\* whatever logins and logouts come between the awaits of the handler.
C23_LoggedInWhen200 ==
    LoginStatusOk =>
        /\ res[1].backend # <<>>
        /\ res[1].backend[1].backendId = backends[backend[1]].id
        /\ res[1].backend[1].type = backends[backend[1]].type
        /\ res[1].backend[1].isLoggedIn

\* C24: when a login-status request is answered 200, getSiteMeta was called
\* exactly when the request names a website id and the backend resolved is
\* a storage; websiteMeta is what getSiteMeta returned in that case, is
\* undefined without a website id and is false for a hosting backend; no
\* other answer to a login-status request comes after a call of getSiteMeta.
C24_SiteMetaOnlyStorage ==
    /\ LoginStatusOk =>
          /\ ("getSiteMeta" \in ops) <=>
                (req[1].id # Missing /\ backends[backend[1]].type = "STORAGE")
          /\ res[1].websiteMeta =
                IF req[1].id = Missing THEN Missing
                ELSE IF backends[backend[1]].type = "STORAGE" THEN req[1].id
                ELSE "false"
    /\ (req # <<>> /\ req[1].endpoint = "loginStatus" /\ ~LoginStatusOk) =>
          "getSiteMeta" \notin ops

\* A request that names a website is answered 200 for a hosting backend:
\* websiteMeta is false and getSiteMeta was not called.
C24_Witness ==
    /\ LoginStatusOk
    /\ req[1].id # Missing
    /\ backends[backend[1]].type = "HOSTING"
    /\ res[1].websiteMeta = "false"
    /\ "getSiteMeta" \notin ops
    /\ "getUserData" \in ops

----------------------------------------------------------------------------
(* The first notification: claim C21 *)

\* C21 as stated: a listener gets prev = null only in the first dispatch
\* called since the module was loaded; in every later dispatch prev is the
\* slice of the state the tracker recorded last.
C21_Original ==
    Dispatched =>
        \A k \in DOMAIN calls :
            IF issued = 1 THEN calls[k].prev = <<>>
            ELSE /\ prevState # <<>>
                 /\ calls[k].prev = <<prevState[1][calls[k].name]>>

\* C21 amended: a listener gets prev = null exactly in the first dispatch
\* that returns; a dispatch whose reducer throws records nothing. In every
\* later dispatch prev is the slice of the state the tracker recorded at the
\* end of the last dispatch that returned, which is the state the store held
\* when this dispatch was called.
C21_NullUntilRecorded ==
    Dispatched =>
        /\ completed >= 2 => prevState = <<pre>>
        /\ \A k \in DOMAIN calls :
              IF completed = 1 THEN calls[k].prev = <<>>
              ELSE calls[k].prev = <<prevState[1][calls[k].name]>>

\* The first dispatch threw; the second returned and invoked a listener, with
\* prev = null.
C21_Witness ==
    /\ Dispatched
    /\ issued = 2
    /\ completed = 1
    /\ calls # <<>>
    /\ \A k \in DOMAIN calls : calls[k].prev = <<>>

\* ---------------------------------------------------------------------
\* Unsubscribing. Every subscription ever made is kept with the number it
\* got when it was made and a flag telling whether the function that
\* store.subscribe returned for it was called; redux notifies the others.
\* ---------------------------------------------------------------------

Subscribed(sub) == ~sub.unsubscribed

\* redux's listener array: the subscriptions not unsubscribed, in
\* subscription order.
currentListenersKeepsAll(all) == all

currentListeners(all) == SelectSeq(all, Subscribed)

\* subscribeToCrud(name, cbk) / subscribeTo(name, cbk).
SubscribeListener ==
    \E name \in {"pages", "site"} :
        /\ Len(subs) < MaxSubs
        /\ subs' = Append(subs, [lid |-> Len(subs) + 1, name |-> name,
                                 unsubscribed |-> FALSE])
        /\ Idle

\* The function returned for a subscription is called; calling it again
\* changes nothing.
CallUnsubscribe ==
    \E i \in DOMAIN subs :
        /\ subs' = [subs EXCEPT ![i].unsubscribed = TRUE]
        /\ Idle

\* The application dispatches a page action.
DispatchPage ==
    \E op \in {"CREATE", "UPDATE", "DELETE"}, id \in OneId, n \in Names :
        DispatchTo(currentListeners(subs),
                   Act("PageAction", op, id, IF op = "DELETE" THEN "" ELSE n),
                   OneId)

\* The application dispatches a site action.
DispatchSite ==
    \E n \in Names :
        DispatchTo(currentListeners(subs), Act("SiteAction", "UPDATE", NoId, n), {})

UnsubNext ==
    /\ \/ SubscribeListener
       \/ CallUnsubscribe
       \/ DispatchPage
       \/ DispatchSite
    /\ UNCHANGED <<backendVars, jobVars, routeVars>>

SpecUnsub == Init /\ [][UnsubNext]_vars

\* The slice `n` was replaced by the dispatch that just returned.
Replaced(n) == pre[n].ref # state[n].ref

\* C22: after a dispatch that returned, no unsubscribed listener was
\* invoked; every listener still subscribed was invoked exactly as if nobody
\* had unsubscribed (once with prev null in the first dispatch that returned,
\* afterwards once with the previous and the new slice when its slice was
\* replaced and not at all otherwise); and the tracker holds the state after
\* the dispatch as curState and the state before it as prevState.
C22_UnsubscribedSilent ==
    Dispatched =>
        /\ \A i \in DOMAIN subs :
              IF subs[i].unsubscribed THEN CallsOf(subs[i].lid) = {}
              ELSE IF completed = 1
                   THEN InvokedOnce(subs[i], <<>>, state[subs[i].name])
                   ELSE IF Replaced(subs[i].name)
                        THEN InvokedOnce(subs[i], <<pre[subs[i].name]>>,
                                         state[subs[i].name])
                        ELSE CallsOf(subs[i].lid) = {}
        /\ curState = <<state>>
        /\ completed >= 2 => prevState = <<pre>>

\* A later dispatch replaced a slice that has an unsubscribed listener and a
\* subscribed one: the second was invoked, the first was not.
C22_Witness ==
    /\ DispatchedAgain
    /\ \E i, j \in DOMAIN subs :
          /\ subs[i].unsubscribed
          /\ ~subs[j].unsubscribed
          /\ subs[i].name = subs[j].name
          /\ Replaced(subs[i].name)
          /\ CallsOf(subs[i].lid) = {}
          /\ CallsOf(subs[j].lid) # {}

============================================================================
